---- MODULE Spec2Model ----
(***************************************************************************)
(* The corporation voter list view (CorporationList.tsx, second variant):  *)
(* client-side filtering, pagination, summary statistics and the          *)
(* milestone celebration, driven by a 5 s poll of the listing endpoint.    *)
(***************************************************************************)
EXTENDS Integers, Sequences, FiniteSets, TLC

(* ------------------------------ bounds -------------------------------- *)

\* longest dataset drawn when the filter engine is checked on its own
MaxLen == 2
\* most auto-hide timeouts pending at once
MaxTimers == 2
\* most fetchAllCorporationData calls in flight at once
MaxInFlight == 2
\* most recomputes whose percentage the history keeps
MaxObserved == 5
\* most fetches that fail in a run
MaxFailed == 2

(* ------------------------- program constants -------------------------- *)

\* the page size of the client-side pagination
PageSize == 50
\* JavaScript null (celebrationPercentage, lastMilestoneRef.current)
Null == 0
\* significand width of a JavaScript Number (IEEE-754 binary64)
Precision == 53
\* the page buttons the table shows at once
maxPagesToShow == 5

milestones == <<10, 20, 30, 40, 50, 60, 70, 80, 90, 100>>

(* ------------------------------ records ------------------------------- *)

\* the fields of BaseVoterData the view's logic reads
BoothNumbers == {"1", "2"}
VotingStatuses == {"Completed", "Direct", "Pending", "In Transit", ""}
UpdatedAts == {"", "2024-01-01"}
InstPaid == {"1", "0"}

VoterRecords ==
    [Booth_Number : BoothNumbers, voting_status : VotingStatuses,
     updated_at : UpdatedAts, inst_1_paid : InstPaid]

\* the predicates the filters and the statistics test a record with
VotingDone(item) ==
    item.voting_status = "Completed" \/ item.voting_status = "Direct"

VotingNotDone(item) ==
    item.voting_status # "Completed" /\ item.voting_status # "Direct"

Surveyed(item) == item.updated_at # ""

Transferred(item) == item.inst_1_paid = "1"

VotersNotYet(item) ==
    item.inst_1_paid = "1"
    /\ (item.voting_status = "Pending" \/ item.voting_status = "In Transit")

(* --------------------------- filter engine ---------------------------- *)

\* a booth stage that loses the first record of the booth
BoothStageSkipping(data, booth) ==
    IF booth # "" /\ SelectSeq(data, LAMBDA item : item.Booth_Number = booth) # << >>
    THEN Tail(SelectSeq(data, LAMBDA item : item.Booth_Number = booth))
    ELSE data

BoothStage(data, booth) ==
    IF booth # "" THEN SelectSeq(data, LAMBDA item : item.Booth_Number = booth)
    ELSE data

\* a voting stage whose "not_done" forgets the Direct votes
VotingStageLoose(data, vf) ==
    IF vf = "done" THEN SelectSeq(data, VotingDone)
    ELSE IF vf = "not_done"
    THEN SelectSeq(data, LAMBDA item : item.voting_status # "Completed")
    ELSE data

VotingStage(data, vf) ==
    IF vf = "done" THEN SelectSeq(data, VotingDone)
    ELSE IF vf = "not_done" THEN SelectSeq(data, VotingNotDone)
    ELSE data

SurveyStage(data, sf) ==
    IF sf = "done" THEN SelectSeq(data, Surveyed)
    ELSE IF sf = "not_done" THEN SelectSeq(data, LAMBDA item : ~Surveyed(item))
    ELSE data

\* a transfer stage whose "no" keeps the transferred records as well
TransferStageSwapped(data, tf) ==
    IF tf = "yes" THEN SelectSeq(data, Transferred)
    ELSE IF tf = "no" THEN SelectSeq(data, Transferred)
    ELSE data

TransferStage(data, tf) ==
    IF tf = "yes" THEN SelectSeq(data, Transferred)
    ELSE IF tf = "no" THEN SelectSeq(data, LAMBDA item : ~Transferred(item))
    ELSE data

NotYetStage(data, nf) ==
    IF nf = "pending" THEN SelectSeq(data, VotersNotYet) ELSE data

\* the allFilteredData memo: booth, voting, survey, transfer, not-yet, in turn
ApplyFilters(data, booth, vf, sf, tf, nf) ==
    NotYetStage(TransferStage(SurveyStage(VotingStage(BoothStage(data, booth),
                                                      vf), sf), tf), nf)

(* ----------------------------- pagination ----------------------------- *)

Min(a, b) == IF a < b THEN a ELSE b

\* Array.prototype.slice(start, end) for 0 <= start <= end
ArraySlice(s, start, end) ==
    SubSeq(s, Min(start, Len(s)) + 1, Min(end, Len(s)))

\* a window that takes the record at endIndex as well
PageWindowInclusive(filtered, page) ==
    ArraySlice(filtered, (page - 1) * PageSize, (page - 1) * PageSize + PageSize + 1)

\* the filteredData memo: slice(startIndex, startIndex + 50)
PageWindow(filtered, page) ==
    ArraySlice(filtered, (page - 1) * PageSize, (page - 1) * PageSize + PageSize)

\* a page count that rounds down
Floor(a, b) == a \div b

\* Math.ceil(a / b) for a >= 0, b > 0
Ceil(a, b) == (a + b - 1) \div b

\* a pagination record whose last page still has a next page
PaginationInfoOffByOne(page, totalPages, totalFilteredRecords) ==
    [currentPage |-> page,
     totalPages |-> totalPages,
     totalRecords |-> totalFilteredRecords,
     limit |-> PageSize,
     hasNextPage |-> page <= totalPages,
     hasPrevPage |-> page > 1]

PaginationInfo(page, totalPages, totalFilteredRecords) ==
    [currentPage |-> page,
     totalPages |-> totalPages,
     totalRecords |-> totalFilteredRecords,
     limit |-> PageSize,
     hasNextPage |-> page < totalPages,
     hasPrevPage |-> page > 1]

\* the filteredPagination memo
PaginationOf(filtered, page) ==
    PaginationInfo(page, Ceil(Len(filtered), PageSize), Len(filtered))

(* -------------------- Number arithmetic (binary64) -------------------- *)
\* Natural numbers as bit sequences, least significant bit first.

RECURSIVE Reverse(_)
Reverse(s) == IF s = << >> THEN << >> ELSE Reverse(Tail(s)) \o <<Head(s)>>

RECURSIVE Zeros(_)
Zeros(n) == IF n = 0 THEN << >> ELSE <<0>> \o Zeros(n - 1)

RECURSIVE AddBits(_, _, _)
AddBits(a, b, c) ==
    IF a = << >> /\ b = << >>
    THEN (IF c = 1 THEN <<1>> ELSE << >>)
    ELSE LET x == IF a = << >> THEN 0 ELSE Head(a)
             y == IF b = << >> THEN 0 ELSE Head(b)
             s == x + y + c
         IN  <<s % 2>> \o AddBits(IF a = << >> THEN a ELSE Tail(a),
                                  IF b = << >> THEN b ELSE Tail(b),
                                  s \div 2)

RECURSIVE BitsValue(_)
BitsValue(a) == IF a = << >> THEN 0 ELSE Head(a) + 2 * BitsValue(Tail(a))

AnyOne(a) == \E i \in 1..Len(a) : a[i] = 1

\* round the natural number x (its top bit set) to Precision significant
\* bits, ties to even; sticky tells that a nonzero tail lies below x.
\* The result is the kept bits and the number d of bits dropped.
RoundKept(x, sticky, d) ==
    IF x[d] = 1 /\ (sticky \/ AnyOne(SubSeq(x, 1, d - 1)) \/ x[d + 1] = 1)
    THEN AddBits(SubSeq(x, d + 1, Len(x)), <<1>>, 0)
    ELSE SubSeq(x, d + 1, Len(x))

RoundToPrecision(x, sticky) ==
    IF Len(x) <= Precision THEN [bits |-> x, dropped |-> 0]
    ELSE [bits |-> RoundKept(x, sticky, Len(x) - Precision),
          dropped |-> Len(x) - Precision]

\* the zero bits that open the binary expansion of r / n, 0 < r < n
RECURSIVE LeadingZeros(_, _)
LeadingZeros(r, n) == IF 2 * r >= n THEN 0 ELSE 1 + LeadingZeros(2 * r, n)

\* the first cnt bits of the binary expansion of r / n, 0 <= r < n
RECURSIVE FractionBits(_, _, _)
FractionBits(r, n, cnt) ==
    IF cnt = 0 THEN << >>
    ELSE <<(2 * r) \div n>> \o FractionBits((2 * r) % n, n, cnt - 1)

\* what is left of r / n below those cnt bits
RECURSIVE FractionRest(_, _, _)
FractionRest(r, n, cnt) ==
    IF cnt = 0 THEN r ELSE FractionRest((2 * r) % n, n, cnt - 1)

\* x * 100 = x * 64 + x * 32 + x * 4
Times100(x) ==
    AddBits(AddBits(Zeros(6) \o x, Zeros(5) \o x, 0), Zeros(2) \o x, 0)

\* Math.round of the Number bits * 2^-f: the bits above the point, plus
\* one when the first bit below it is set (ties go upward)
RoundBits(bits, f) ==
    (IF f < Len(bits) THEN BitsValue(SubSeq(bits, f + 1, Len(bits))) ELSE 0)
    + (IF f >= 1 /\ f <= Len(bits) THEN bits[f] ELSE 0)

\* the product, a Number of scale qscale - product.dropped, rounded
RoundProduct(product, qscale) ==
    RoundBits(product.bits, qscale - product.dropped)

\* quotient * 100 rounded to a Number, then Math.round
TimesHundredRounded(quotient, z) ==
    RoundProduct(RoundToPrecision(Times100(quotient.bits), FALSE),
                 z + Precision + 1 - quotient.dropped)

\* k / n rounded to a Number: Precision + 1 bits of the expansion after its
\* z leading zeros, rounded with what is left below them
QuotientRounded(k, n, z) ==
    RoundToPrecision(
        Reverse(FractionBits(FractionRest(k, n, z), n, Precision + 1)),
        FractionRest(k, n, z + Precision + 1) # 0)

\* Math.round(p) of the Number p = (k / n) * 100, 0 < k < n, from the bits
PercentFromBits(k, n, z) == TimesHundredRounded(QuotientRounded(k, n, z), z)

RoundPercentBits(k, n) == PercentFromBits(k, n, LeadingZeros(k, n))

\* 100 * k / n lies exactly halfway between two integers
HalfwayPercent(k, n) == (200 * k) % n = 0 /\ ((200 * k) \div n) % 2 = 1

\* Math.round((k / n) * 100) for 0 <= k <= n, n > 0.  0 / n and n / n are
\* exact.  Off a halfway point the exact ratio is at least 1 / (2 * n) away
\* from the next one and the two roundings of the Number arithmetic move it
\* by less than 2^-45, so the nearest integer is that of the exact ratio;
\* at a halfway point the bits decide.
RoundPercent(k, n) ==
    IF k = 0 THEN 0
    ELSE IF k = n THEN 100
    ELSE IF HalfwayPercent(k, n) THEN RoundPercentBits(k, n)
    ELSE (200 * k + n) \div (2 * n)

(* ------------------------- summary statistics ------------------------- *)

\* statistics whose ratio is taken the wrong way round
StatsOfInverted(totalRecords, totalSurveyCount, votingDoneCount) ==
    [totalRecords |-> totalRecords,
     totalSurveyCount |-> totalSurveyCount,
     votingDoneCount |-> votingDoneCount,
     votingDonePercentage |->
         IF votingDoneCount > 0
         THEN (200 * totalRecords + votingDoneCount) \div (2 * votingDoneCount)
         ELSE 0]

StatsOf(totalRecords, totalSurveyCount, votingDoneCount) ==
    [totalRecords |-> totalRecords,
     totalSurveyCount |-> totalSurveyCount,
     votingDoneCount |-> votingDoneCount,
     votingDonePercentage |->
         IF totalRecords > 0 THEN RoundPercent(votingDoneCount, totalRecords)
         ELSE 0]

StatsOver(dataToUse) ==
    StatsOf(Len(dataToUse), Len(SelectSeq(dataToUse, Surveyed)),
            Len(SelectSeq(dataToUse, VotingDone)))

\* the first half of the summaryStats memo
ComputeStats(booth, filtered, all) ==
    StatsOver(IF booth # "" THEN filtered ELSE all)

(* ------------------------- milestone detector ------------------------- *)

\* Array.prototype.find over milestones; Null when none matches
RECURSIVE Find(_, _, _)
Find(ms, prevPercentage, votingDonePercentage) ==
    IF ms = << >> THEN Null
    ELSE IF prevPercentage < Head(ms) /\ votingDonePercentage >= Head(ms)
         THEN Head(ms)
         ELSE Find(Tail(ms), prevPercentage, votingDonePercentage)

SetMax(S) == CHOOSE m \in S : \A x \in S : x <= m

Range(s) == {s[i] : i \in 1..Len(s)}

\* a seed that takes the milestones strictly below the percentage
AlreadyReachedStrict(votingDonePercentage) ==
    {m \in Range(milestones) : votingDonePercentage > m}

\* the highest milestone already reached, for the seed
AlreadyReached(votingDonePercentage) ==
    {m \in Range(milestones) : votingDonePercentage >= m}

\* a memo whose trailing update follows the percentage only upwards
MilestoneOutcomeRising(prevPercentage, lastMilestone, votingDonePercentage, seed, fire, reachedMilestone, alreadyReached) ==
    [prev |-> IF seed THEN votingDonePercentage
              ELSE IF votingDonePercentage > prevPercentage
                      /\ prevPercentage # 0
                   THEN votingDonePercentage
                   ELSE prevPercentage,
     last |-> IF seed
              THEN (IF alreadyReached # {} THEN SetMax(alreadyReached)
                    ELSE lastMilestone)
              ELSE IF fire THEN reachedMilestone ELSE lastMilestone,
     fired |-> IF fire THEN reachedMilestone ELSE Null]

\* a memo that writes the two refs in the seed only
MilestoneOutcomeSeedOnly(prevPercentage, lastMilestone, votingDonePercentage, seed, fire, reachedMilestone, alreadyReached) ==
    [prev |-> IF seed THEN votingDonePercentage ELSE prevPercentage,
     last |-> IF seed /\ alreadyReached # {} THEN SetMax(alreadyReached)
              ELSE lastMilestone,
     fired |-> IF fire THEN reachedMilestone ELSE Null]

MilestoneOutcome(prevPercentage, lastMilestone, votingDonePercentage, seed, fire, reachedMilestone, alreadyReached) ==
    [prev |-> IF seed THEN votingDonePercentage
              ELSE IF votingDonePercentage # prevPercentage
                      /\ prevPercentage # 0
                   THEN votingDonePercentage
                   ELSE prevPercentage,
     last |-> IF seed
              THEN (IF alreadyReached # {} THEN SetMax(alreadyReached)
                    ELSE lastMilestone)
              ELSE IF fire THEN reachedMilestone ELSE lastMilestone,
     fired |-> IF fire THEN reachedMilestone ELSE Null]

\* a memo that fires while a celebration is showing
MilestoneBranchReentrant(prevPercentage, lastMilestone, show, votingDonePercentage, seed, reachedMilestone) ==
    MilestoneOutcome(prevPercentage, lastMilestone, votingDonePercentage,
                     seed,
                     /\ ~seed
                     /\ votingDonePercentage > prevPercentage
                     /\ reachedMilestone # Null
                     /\ reachedMilestone # lastMilestone,
                     reachedMilestone, AlreadyReached(votingDonePercentage))

\* a memo that fires the milestone it fired last
MilestoneBranchRefire(prevPercentage, lastMilestone, show, votingDonePercentage, seed, reachedMilestone) ==
    MilestoneOutcome(prevPercentage, lastMilestone, votingDonePercentage,
                     seed,
                     /\ ~seed
                     /\ votingDonePercentage > prevPercentage
                     /\ reachedMilestone # Null
                     /\ ~show,
                     reachedMilestone, AlreadyReached(votingDonePercentage))

MilestoneBranch(prevPercentage, lastMilestone, show, votingDonePercentage, seed, reachedMilestone) ==
    MilestoneOutcome(prevPercentage, lastMilestone, votingDonePercentage,
                     seed,
                     /\ ~seed
                     /\ votingDonePercentage > prevPercentage
                     /\ reachedMilestone # Null
                     /\ reachedMilestone # lastMilestone
                     /\ ~show,
                     reachedMilestone, AlreadyReached(votingDonePercentage))

\* a memo without the seed branch
MilestoneStepUnseeded(prevPercentage, lastMilestone, show, votingDonePercentage) ==
    MilestoneBranch(prevPercentage, lastMilestone, show, votingDonePercentage,
                    FALSE,
                    Find(milestones, prevPercentage, votingDonePercentage))

\* the second half of the summaryStats memo, run once: the two refs after
\* it and the milestone it starts a celebration for (Null when none)
MilestoneStep(prevPercentage, lastMilestone, show, votingDonePercentage) ==
    MilestoneBranch(prevPercentage, lastMilestone, show, votingDonePercentage,
                    prevPercentage = 0 /\ votingDonePercentage > 0,
                    Find(milestones, prevPercentage, votingDonePercentage))

(* ------------------------------ the view ------------------------------ *)

VARIABLES
    allCorporationData,     \* useState: the dataset of the last fetchAll
    currentPage,            \* useState
    selectedBooth,          \* useState
    votingFilter,           \* useState
    surveyFilter,           \* useState
    transferFilter,         \* useState
    votersNotYetFilter,     \* useState
    celebrationPercentage,  \* useState: the decile celebrated, or Null
    showCardCelebration,    \* useState
    prevPercentageRef,      \* useRef
    lastMilestoneRef,       \* useRef: a decile, or Null
    allFilteredData,        \* useMemo
    filteredData,           \* useMemo: the page window
    filteredPagination,     \* useMemo
    summaryStats,           \* useMemo
    corporationListColumns, \* useMemo with no dependencies: the bindings
                            \* its render closures captured
    pendingAll,             \* fetchAllCorporationData calls in flight
    timers,                 \* pending auto-hide timeouts, oldest first: the
                            \* decile each was started for
    mounted,                \* the component is mounted
    pageResetPending,       \* the reset-page effect is scheduled
    corporationListData,    \* useState: the page of the last fetchList
    pagination,             \* useState: its pagination record, or Null
    corporationListLoading, \* useState
    pendingList,            \* fetchCorporationList calls in flight: the
                            \* page each asked for
    toasts,                 \* the error notifications shown so far
    failed,                 \* history: the fetches that failed so far
    inFlightAll,            \* history: the fetchAll calls in flight, oldest
                            \* first: TRUE when a younger one has resolved
    staleWrite,             \* history: the dataset was last written by a
                            \* call older than one that resolved before
    lastResponse,           \* history: the dataset last answered
    searchView,             \* the useState of the list view that searches
                            \* on the server: corporationListData,
                            \* pagination (<< >> for null, else the
                            \* record alone), currentPage, searchTerm
    pendingSearch,          \* its fetchCorporationList calls in flight,
                            \* oldest first: the page and search of each
    lastIssued,             \* history: the request issued last
    observed,               \* history: the percentages the recomputes saw
    fired                   \* history: the deciles celebrated, in order

state == <<allCorporationData, currentPage, selectedBooth, votingFilter,
           surveyFilter, transferFilter, votersNotYetFilter,
           celebrationPercentage, showCardCelebration, prevPercentageRef,
           lastMilestoneRef>>
memos == <<allFilteredData, filteredData, filteredPagination, summaryStats,
           corporationListColumns>>
env == <<pendingAll, timers, mounted, pageResetPending>>
history == <<observed, fired>>
list == <<corporationListData, pagination, corporationListLoading,
          pendingList, toasts>>
order == <<inFlightAll, staleWrite, lastResponse>>
search == <<searchView, pendingSearch, lastIssued>>
calls == <<failed, order, search>>
vars == <<state, memos, env, history, list, calls>>

\* the celebration state after the summaryStats memo ran (first) and, when
\* it started a celebration, ran again in the re-render that follows:
\* showCardCelebration is one of its dependencies
Settled(first, again, celeb, show) ==
    IF first.fired # Null
    THEN [prev |-> again.prev, last |-> again.last, show |-> TRUE,
          celeb |-> first.fired,
          started |-> <<first.fired>>
                      \o (IF again.fired # Null THEN <<again.fired>>
                          ELSE << >>)]
    ELSE [prev |-> first.prev, last |-> first.last, show |-> show,
          celeb |-> celeb, started |-> << >>]

Rerun(first, votingDonePercentage, celeb, show) ==
    Settled(first,
            MilestoneStep(first.prev, first.last, TRUE, votingDonePercentage),
            celeb, show)

RenderOf(filtered, stats, page, celeb, show, prev, last) ==
    [allFilteredData |-> filtered,
     filteredData |-> PageWindow(filtered, page),
     filteredPagination |-> PaginationOf(filtered, page),
     summaryStats |-> stats,
     milestone |-> Rerun(MilestoneStep(prev, last, show,
                                       stats.votingDonePercentage),
                         stats.votingDonePercentage, celeb, show)]

RenderFiltered(filtered, data, page, booth, celeb, show, prev, last) ==
    RenderOf(filtered, ComputeStats(booth, filtered, data), page, celeb, show,
             prev, last)

\* One render of CorporationList from the given state: the memos, and the
\* refs and celebration state the summaryStats memo leaves
Render(data, page, booth, vf, sf, tf, nf, celeb, show, prev, last) ==
    RenderFiltered(ApplyFilters(data, booth, vf, sf, tf, nf), data, page,
                   booth, celeb, show, prev, last)

\* the render of the 'Sr. No.' column for the row at index of the table:
\* columns holds the currentPage the closure was created with
SerialNumber(columns, index) == (columns.currentPage - 1) * PageSize + index + 1

CommitRender(r, data, page, booth, vf, sf, tf, nf, tq) ==
    /\ Len(tq) + Len(r.milestone.started) <= MaxTimers
    /\ allCorporationData' = data
    /\ currentPage' = page
    /\ selectedBooth' = booth
    /\ votingFilter' = vf
    /\ surveyFilter' = sf
    /\ transferFilter' = tf
    /\ votersNotYetFilter' = nf
    /\ celebrationPercentage' = r.milestone.celeb
    /\ showCardCelebration' = r.milestone.show
    /\ prevPercentageRef' = r.milestone.prev
    /\ lastMilestoneRef' = r.milestone.last
    /\ allFilteredData' = r.allFilteredData
    /\ filteredData' = r.filteredData
    /\ filteredPagination' = r.filteredPagination
    /\ summaryStats' = r.summaryStats
    /\ corporationListColumns' = corporationListColumns
    /\ timers' = tq \o r.milestone.started

\* the state update of a handler followed by the render it causes; tq is
\* the timer queue the handler leaves
Commit(data, page, booth, vf, sf, tf, nf, celeb, show, tq) ==
    CommitRender(Render(data, page, booth, vf, sf, tf, nf, celeb, show,
                        prevPercentageRef, lastMilestoneRef),
                 data, page, booth, vf, sf, tf, nf, tq)

\* the component after mount: nothing fetched yet, the mount effect has
\* started the first fetchAllCorporationData and the poll interval
Init ==
    /\ allCorporationData = << >>
    /\ currentPage = 1
    /\ selectedBooth = ""
    /\ votingFilter = ""
    /\ surveyFilter = ""
    /\ transferFilter = ""
    /\ votersNotYetFilter = ""
    /\ celebrationPercentage = Null
    /\ showCardCelebration = FALSE
    /\ prevPercentageRef = 0
    /\ lastMilestoneRef = Null
    /\ allFilteredData = << >>
    /\ filteredData = << >>
    /\ filteredPagination = PaginationOf(<< >>, 1)
    /\ summaryStats = ComputeStats("", << >>, << >>)
    /\ corporationListColumns = [currentPage |-> 1]
    /\ pendingAll = 1
    /\ timers = << >>
    /\ mounted = TRUE
    /\ pageResetPending = FALSE
    /\ observed = <<0>>
    /\ fired = << >>
    /\ corporationListData = << >>
    /\ pagination = Null
    /\ corporationListLoading = TRUE
    /\ pendingList = <<1>>
    /\ toasts = 0
    /\ failed = 0
    /\ inFlightAll = <<FALSE>>
    /\ staleWrite = FALSE
    /\ lastResponse = << >>
    /\ searchView = [corporationListData |-> << >>, pagination |-> << >>,
                     currentPage |-> 1, searchTerm |-> ""]
    /\ pendingSearch = <<[page |-> 1, search |-> ""]>>
    /\ lastIssued = [page |-> 1, search |-> ""]

(* ------------------------------- inputs ------------------------------- *)

\* a dataset of n records: the first done have voted, the first surveyed
\* are surveyed, the booths alternate
VoterRecord(booth, status, updated, paid) ==
    [Booth_Number |-> booth, voting_status |-> status,
     updated_at |-> updated, inst_1_paid |-> paid]

MkData(n, done, surveyed) ==
    [i \in 1..n |->
        VoterRecord(IF i % 2 = 1 THEN "1" ELSE "2",
                    IF i <= done
                    THEN (IF i % 2 = 1 THEN "Completed" ELSE "Direct")
                    ELSE IF i % 3 = 0 THEN ""
                    ELSE IF i % 2 = 1 THEN "Pending" ELSE "In Transit",
                    IF i <= surveyed THEN "2024-01-01" ELSE "",
                    IF i % 3 = 1 THEN "1" ELSE "0")]

\* what the listing endpoint answers in the runs of Spec:
\* 33, 25 and 50 percent voting done
Responses == {MkData(3, 1, 2), MkData(4, 1, 1), MkData(4, 2, 3)}

\* the booth dropdown: boothFilterOptions
BoothOptions(data) ==
    {""} \cup {data[i].Booth_Number : i \in 1..Len(data)}

(* ------------------------------ actions ------------------------------- *)

\* the 5 s interval fires: fetchAllCorporationData()
PollTick ==
    /\ mounted /\ ~pageResetPending
    /\ pendingAll < MaxInFlight
    /\ pendingAll' = pendingAll + 1
    /\ UNCHANGED <<state, memos, timers, mounted, pageResetPending>>

\* a fetchAllCorporationData that keeps the dataset when the answer is empty
FetchAllResolveKeeping(data) ==
    /\ pendingAll > 0 /\ ~pageResetPending
    /\ pendingAll' = pendingAll - 1
    /\ IF mounted
       THEN Commit(IF data = << >> THEN allCorporationData ELSE data,
                   currentPage, selectedBooth, votingFilter,
                   surveyFilter, transferFilter, votersNotYetFilter,
                   celebrationPercentage, showCardCelebration, timers)
       ELSE UNCHANGED <<state, memos, timers>>
    /\ UNCHANGED <<mounted, pageResetPending>>

\* a fetchAllCorporationData call resolves with the dataset data
FetchAllResolve(data) ==
    /\ pendingAll > 0 /\ ~pageResetPending
    /\ pendingAll' = pendingAll - 1
    /\ IF mounted
       THEN Commit(data, currentPage, selectedBooth, votingFilter,
                   surveyFilter, transferFilter, votersNotYetFilter,
                   celebrationPercentage, showCardCelebration, timers)
       ELSE UNCHANGED <<state, memos, timers>>
    /\ UNCHANGED <<mounted, pageResetPending>>

FetchAllDone == \E data \in Responses : FetchAllResolve(data)

\* a fetchAllCorporationData call fails: the catch branch
FetchAllFail == FetchAllResolve(<< >>)

\* a timeout whose callback clears nothing
TimeoutFireKeeps ==
    /\ timers # << >> /\ ~pageResetPending
    /\ IF mounted
       THEN Commit(allCorporationData, currentPage, selectedBooth,
                   votingFilter, surveyFilter, transferFilter,
                   votersNotYetFilter, celebrationPercentage,
                   showCardCelebration, Tail(timers))
       ELSE /\ timers' = Tail(timers)
            /\ UNCHANGED <<state, memos>>
    /\ UNCHANGED <<pendingAll, mounted, pageResetPending>>

\* an auto-hide timeout fires
TimeoutFire ==
    /\ timers # << >> /\ ~pageResetPending
    /\ IF mounted
       THEN Commit(allCorporationData, currentPage, selectedBooth,
                   votingFilter, surveyFilter, transferFilter,
                   votersNotYetFilter, Null, FALSE, Tail(timers))
       ELSE /\ timers' = Tail(timers)
            /\ UNCHANGED <<state, memos>>
    /\ UNCHANGED <<pendingAll, mounted, pageResetPending>>

\* a close button that hides the overlay and keeps the decile
CloseCelebrationHiding ==
    /\ mounted /\ ~pageResetPending
    /\ showCardCelebration /\ celebrationPercentage # Null
    /\ Commit(allCorporationData, currentPage, selectedBooth, votingFilter,
              surveyFilter, transferFilter, votersNotYetFilter,
              celebrationPercentage, FALSE, timers)
    /\ UNCHANGED <<pendingAll, mounted, pageResetPending>>

\* the close button of the celebration overlay
CloseCelebration ==
    /\ mounted /\ ~pageResetPending
    /\ showCardCelebration /\ celebrationPercentage # Null
    /\ Commit(allCorporationData, currentPage, selectedBooth, votingFilter,
              surveyFilter, transferFilter, votersNotYetFilter,
              Null, FALSE, timers)
    /\ UNCHANGED <<pendingAll, mounted, pageResetPending>>

\* a filter control changes: the render, then the reset-page effect is due
SetSelectedBooth ==
    /\ mounted /\ ~pageResetPending
    /\ \E booth \in BoothOptions(allCorporationData) \ {selectedBooth} :
           Commit(allCorporationData, currentPage, booth, votingFilter,
                  surveyFilter, transferFilter, votersNotYetFilter,
                  celebrationPercentage, showCardCelebration, timers)
    /\ pageResetPending' = TRUE
    /\ UNCHANGED <<pendingAll, mounted>>

SetVotingFilter ==
    /\ mounted /\ ~pageResetPending
    /\ \E vf \in {"", "done", "not_done"} \ {votingFilter} :
           Commit(allCorporationData, currentPage, selectedBooth, vf,
                  surveyFilter, transferFilter, votersNotYetFilter,
                  celebrationPercentage, showCardCelebration, timers)
    /\ pageResetPending' = TRUE
    /\ UNCHANGED <<pendingAll, mounted>>

SetSurveyFilter ==
    /\ mounted /\ ~pageResetPending
    /\ \E sf \in {"", "done", "not_done"} \ {surveyFilter} :
           Commit(allCorporationData, currentPage, selectedBooth,
                  votingFilter, sf, transferFilter, votersNotYetFilter,
                  celebrationPercentage, showCardCelebration, timers)
    /\ pageResetPending' = TRUE
    /\ UNCHANGED <<pendingAll, mounted>>

SetTransferFilter ==
    /\ mounted /\ ~pageResetPending
    /\ \E tf \in {"", "yes", "no"} \ {transferFilter} :
           Commit(allCorporationData, currentPage, selectedBooth,
                  votingFilter, surveyFilter, tf, votersNotYetFilter,
                  celebrationPercentage, showCardCelebration, timers)
    /\ pageResetPending' = TRUE
    /\ UNCHANGED <<pendingAll, mounted>>

SetVotersNotYetFilter ==
    /\ mounted /\ ~pageResetPending
    /\ \E nf \in {"", "pending"} \ {votersNotYetFilter} :
           Commit(allCorporationData, currentPage, selectedBooth,
                  votingFilter, surveyFilter, transferFilter, nf,
                  celebrationPercentage, showCardCelebration, timers)
    /\ pageResetPending' = TRUE
    /\ UNCHANGED <<pendingAll, mounted>>

\* the effect on the five filters: setCurrentPage(1)
ResetPageEffect ==
    /\ mounted /\ pageResetPending
    /\ Commit(allCorporationData, 1, selectedBooth, votingFilter,
              surveyFilter, transferFilter, votersNotYetFilter,
              celebrationPercentage, showCardCelebration, timers)
    /\ pageResetPending' = FALSE
    /\ UNCHANGED <<pendingAll, mounted>>

\* the component unmounts: the interval is cleared, nothing else is
Unmount ==
    /\ mounted /\ ~pageResetPending
    /\ mounted' = FALSE
    /\ UNCHANGED <<state, memos, pendingAll, timers, pageResetPending>>

(* ------------------------- the paginated list ------------------------- *)

Max(a, b) == IF a > b THEN a ELSE b

RemoveAt(s, i) == SubSeq(s, 1, i - 1) \o SubSeq(s, i + 1, Len(s))

\* the numbered buttons of the table: startPage..endPage
PageNumbers(cur, totalPages, endPage) ==
    (IF endPage - Max(1, cur - maxPagesToShow \div 2) + 1 < maxPagesToShow
     THEN Max(1, endPage - maxPagesToShow + 1)
     ELSE Max(1, cur - maxPagesToShow \div 2)) .. endPage

\* the pages the pagination controls of the table can ask for
PageButtons(p) ==
    IF p.totalPages > 1
    THEN PageNumbers(p.currentPage, p.totalPages,
                     Min(p.totalPages,
                         Max(1, p.currentPage - maxPagesToShow \div 2)
                         + maxPagesToShow - 1))
         \cup (IF p.hasPrevPage THEN {p.currentPage - 1} ELSE {})
         \cup (IF p.hasNextPage THEN {p.currentPage + 1} ELSE {})
    ELSE {}

\* onPageChange of the table: handlePageChange(page)
HandlePageChange ==
    /\ mounted /\ ~pageResetPending
    /\ \E page \in PageButtons(filteredPagination) \ {currentPage} :
           Commit(allCorporationData, page, selectedBooth, votingFilter,
                  surveyFilter, transferFilter, votersNotYetFilter,
                  celebrationPercentage, showCardCelebration, timers)
    /\ UNCHANGED <<pendingAll, mounted, pageResetPending, list>>

\* the Manual Refresh button: fetchCorporationList(currentPage) and
\* fetchAllCorporationData()
ManualRefresh ==
    /\ mounted /\ ~pageResetPending
    /\ ~corporationListLoading
    /\ pendingAll < MaxInFlight
    /\ pendingAll' = pendingAll + 1
    /\ pendingList' = Append(pendingList, currentPage)
    /\ corporationListLoading' = TRUE
    /\ UNCHANGED <<state, memos, timers, mounted, pageResetPending,
                   corporationListData, pagination, toasts>>

\* the i-th fetchCorporationList call in flight resolves: the endpoint
\* answers the page asked for of the dataset data
FetchListResolve(i, data) ==
    /\ ~pageResetPending
    /\ pendingList' = RemoveAt(pendingList, i)
    /\ IF mounted
       THEN /\ corporationListData' = PageWindow(data, pendingList[i])
            /\ pagination' = PaginationOf(data, pendingList[i])
            /\ corporationListLoading' = FALSE
            /\ Commit(allCorporationData, pendingList[i], selectedBooth,
                      votingFilter, surveyFilter, transferFilter,
                      votersNotYetFilter, celebrationPercentage,
                      showCardCelebration, timers)
       ELSE UNCHANGED <<state, memos, timers, corporationListData,
                        pagination, corporationListLoading>>
    /\ UNCHANGED <<pendingAll, mounted, pageResetPending, toasts>>

\* the i-th fetchCorporationList call in flight fails: the catch branch
FetchListReject(i) ==
    /\ ~pageResetPending
    /\ toasts < MaxFailed
    /\ pendingList' = RemoveAt(pendingList, i)
    /\ toasts' = toasts + 1
    /\ IF mounted
       THEN /\ corporationListData' = << >>
            /\ pagination' = Null
            /\ corporationListLoading' = FALSE
       ELSE UNCHANGED <<corporationListData, pagination,
                        corporationListLoading>>
    /\ UNCHANGED <<state, memos, pendingAll, timers, mounted,
                   pageResetPending>>

FetchListFail == \E i \in 1..Len(pendingList) : FetchListReject(i)

Next ==
    \/ PollTick /\ UNCHANGED <<history, list, calls>>
    \/ FetchAllDone /\ UNCHANGED <<history, list, calls>>
    \/ FetchAllFail /\ UNCHANGED <<history, list, calls>>
    \/ TimeoutFire /\ UNCHANGED <<history, list, calls>>
    \/ CloseCelebration /\ UNCHANGED <<history, list, calls>>
    \/ SetSelectedBooth /\ UNCHANGED <<history, list, calls>>
    \/ SetVotingFilter /\ UNCHANGED <<history, list, calls>>
    \/ SetSurveyFilter /\ UNCHANGED <<history, list, calls>>
    \/ SetTransferFilter /\ UNCHANGED <<history, list, calls>>
    \/ SetVotersNotYetFilter /\ UNCHANGED <<history, list, calls>>
    \/ ResetPageEffect /\ UNCHANGED <<history, list, calls>>
    \/ Unmount /\ UNCHANGED <<history, list, calls>>

\* the summary side of the view, over the datasets of Responses: polls,
\* filters, celebrations and unmount, with the list fetch of the mount in
\* flight throughout
Spec == Init /\ [][Next]_vars

(* ----------------------- the filter engine alone ---------------------- *)

RECURSIVE SeqsUpTo(_, _)
SeqsUpTo(S, n) ==
    IF n = 0 THEN {<< >>}
    ELSE SeqsUpTo(S, n - 1)
         \cup {Append(s, x) : s \in {t \in SeqsUpTo(S, n - 1) : Len(t) = n - 1},
                              x \in S}

\* the records the datasets of SpecFilter are made of: every booth, voting
\* status, survey marker and transfer flag occurs in them
SampleRecords ==
    {VoterRecord("1", "Completed", "2024-01-01", "1"),
     VoterRecord("1", "Pending", "", "1"),
     VoterRecord("1", "In Transit", "2024-01-01", "0"),
     VoterRecord("1", "", "", "0"),
     VoterRecord("2", "Direct", "", "0"),
     VoterRecord("2", "In Transit", "", "1"),
     VoterRecord("2", "Pending", "2024-01-01", "1"),
     VoterRecord("2", "", "2024-01-01", "1")}

\* every dataset of at most MaxLen of them
SmallDatasets == SeqsUpTo(SampleRecords, MaxLen)

FilterFetchDone == \E data \in SmallDatasets : FetchAllResolve(data)

NextFilter ==
    \/ FilterFetchDone /\ UNCHANGED <<history, list, calls>>
    \/ SetSelectedBooth /\ UNCHANGED <<history, list, calls>>
    \/ SetVotingFilter /\ UNCHANGED <<history, list, calls>>
    \/ SetSurveyFilter /\ UNCHANGED <<history, list, calls>>
    \/ SetTransferFilter /\ UNCHANGED <<history, list, calls>>
    \/ SetVotersNotYetFilter /\ UNCHANGED <<history, list, calls>>
    \/ ResetPageEffect /\ UNCHANGED <<history, list, calls>>

\* the first fetch answers any small dataset, and the filters are set
SpecFilter == Init /\ [][NextFilter]_vars

(* ------------------- the milestone detector observed ------------------ *)

\* 0, 5, 15, 25, 35, 47, 60 and 100 percent voting done
ScenarioResponses ==
    {MkData(20, 0, 0), MkData(20, 1, 4), MkData(20, 3, 5), MkData(20, 5, 5),
     MkData(20, 7, 9), MkData(17, 8, 8), MkData(20, 12, 15),
     MkData(20, 20, 20)}

\* the history of a step in which a fetch resolved and the memo ran: the
\* percentage it saw and the celebrations it started
Observe ==
    /\ Len(observed) < MaxObserved
    /\ observed' = Append(observed, summaryStats'.votingDonePercentage)
    /\ fired' = fired \o SubSeq(timers', Len(timers) + 1, Len(timers'))

\* the history of a dismissal: the memo runs again on the percentage it saw
\* last
ObserveAgain ==
    /\ observed' = observed
    /\ fired' = fired \o SubSeq(timers', Len(timers) + 1, Len(timers'))

\* the history of a timeout, which leaves the queue first
ObserveTimeout ==
    /\ observed' = observed
    /\ fired' = fired \o SubSeq(timers', Len(timers), Len(timers'))

ScenarioFetchDone == \E data \in ScenarioResponses : FetchAllResolve(data)

NextScenario ==
    \/ PollTick /\ UNCHANGED <<history, list, calls>>
    \/ ScenarioFetchDone /\ Observe /\ UNCHANGED <<list, calls>>
    \/ FetchAllFail /\ Observe /\ UNCHANGED <<list, calls>>
    \/ TimeoutFire /\ ObserveTimeout /\ UNCHANGED <<list, calls>>
    \/ CloseCelebration /\ ObserveAgain /\ UNCHANGED <<list, calls>>

\* polls, timeouts and dismissals only, with the history kept
SpecScenario == Init /\ [][NextScenario]_vars

NextAutoClear ==
    \/ PollTick /\ UNCHANGED <<history, list, calls>>
    \/ ScenarioFetchDone /\ Observe /\ UNCHANGED <<list, calls>>
    \/ FetchAllFail /\ Observe /\ UNCHANGED <<list, calls>>
    \/ TimeoutFire /\ ObserveTimeout /\ UNCHANGED <<list, calls>>

\* no dismissal; a timeout that is due does fire
SpecAutoClear ==
    Init /\ [][NextAutoClear]_vars /\ WF_vars(TimeoutFire /\ ObserveTimeout /\ UNCHANGED <<list, calls>>)

(* ----------------------- the statistics at scale ---------------------- *)

StatsResponses ==
    {MkData(40, done, 10) : done \in 21..24}
    \cup {MkData(200, 50, 80), MkData(8, 1, 8), MkData(1, 1, 0)}

StatsFetchDone == \E data \in StatsResponses : FetchAllResolve(data)

NextStats ==
    \/ PollTick /\ UNCHANGED <<history, list, calls>>
    \/ StatsFetchDone /\ UNCHANGED <<history, list, calls>>
    \/ FetchAllFail /\ UNCHANGED <<history, list, calls>>
    \/ TimeoutFire /\ UNCHANGED <<history, list, calls>>
    \/ CloseCelebration /\ UNCHANGED <<history, list, calls>>

\* polls over datasets of up to 200 records
SpecStats == Init /\ [][NextStats]_vars

(* ------------------------ the pages of the list ----------------------- *)

\* what the listing endpoint answers in the runs of SpecPage: three pages
\* and two pages, the second with one record
PageResponses == {MkData(120, 30, 60), MkData(51, 13, 20)}

PageFetchAllDone == \E data \in PageResponses : FetchAllResolve(data)

PageFetchListDone ==
    \E data \in PageResponses :
        \E i \in 1..Len(pendingList) : FetchListResolve(i, data)

NextPage ==
    \/ PollTick /\ UNCHANGED <<history, list, calls>>
    \/ PageFetchAllDone /\ UNCHANGED <<history, list, calls>>
    \/ ManualRefresh /\ UNCHANGED <<history, calls>>
    \/ PageFetchListDone /\ UNCHANGED <<history, calls>>
    \/ HandlePageChange /\ UNCHANGED <<history, calls>>
    \/ SetSelectedBooth /\ UNCHANGED <<history, list, calls>>
    \/ SetVotingFilter /\ UNCHANGED <<history, list, calls>>
    \/ ResetPageEffect /\ UNCHANGED <<history, list, calls>>
    \/ TimeoutFire /\ UNCHANGED <<history, list, calls>>

\* fetches, refreshes, page changes and two of the filters, over datasets
\* of more than one page
SpecPage == Init /\ [][NextPage]_vars

(* -------------------------- fetches that fail ------------------------- *)

FetchListDone ==
    \E data \in Responses :
        \E i \in 1..Len(pendingList) : FetchListResolve(i, data)

\* the history of a step in which a fetch failed
CountFailure ==
    /\ failed < MaxFailed
    /\ failed' = failed + 1
    /\ UNCHANGED <<order, search>>

NextFail ==
    \/ PollTick /\ UNCHANGED <<history, list, calls>>
    \/ FetchAllDone /\ UNCHANGED <<history, list, calls>>
    \/ FetchAllFail /\ CountFailure /\ UNCHANGED <<history, list>>
    \/ ManualRefresh /\ UNCHANGED <<history, calls>>
    \/ FetchListDone /\ UNCHANGED <<history, calls>>
    \/ FetchListFail /\ CountFailure /\ UNCHANGED history
    \/ SetVotingFilter /\ UNCHANGED <<history, list, calls>>
    \/ ResetPageEffect /\ UNCHANGED <<history, list, calls>>
    \/ TimeoutFire /\ UNCHANGED <<history, list, calls>>

\* both fetches, succeeding or failing, with the failures counted
SpecFail == Init /\ [][NextFail]_vars

(* ------------------------- overlapping fetches ------------------------ *)

\* the history of a step that starts a fetchAllCorporationData call
StartCall ==
    /\ inFlightAll' = Append(inFlightAll, FALSE)
    /\ UNCHANGED <<failed, staleWrite, lastResponse, search>>

\* the calls in flight once the i-th has resolved: the older ones have
\* been overtaken
Overtake(s, i) == RemoveAt([j \in 1..Len(s) |-> j < i \/ s[j]], i)

\* the history of a step in which the i-th call in flight resolves with
\* the dataset data
ResolveCall(i, data) ==
    /\ inFlightAll' = Overtake(inFlightAll, i)
    /\ staleWrite' = inFlightAll[i]
    /\ lastResponse' = data
    /\ UNCHANGED <<failed, search>>

OverlapFetchDone ==
    \E data \in Responses :
        \E i \in 1..Len(inFlightAll) :
            FetchAllResolve(data) /\ ResolveCall(i, data)

OverlapFetchFail ==
    \E i \in 1..Len(inFlightAll) : FetchAllFail /\ ResolveCall(i, << >>)

NextOverlap ==
    \/ PollTick /\ StartCall /\ UNCHANGED <<history, list>>
    \/ ManualRefresh /\ StartCall /\ UNCHANGED history
    \/ OverlapFetchDone /\ UNCHANGED <<history, list>>
    \/ OverlapFetchFail /\ UNCHANGED <<history, list>>
    \/ FetchListDone /\ UNCHANGED <<history, calls>>
    \/ TimeoutFire /\ UNCHANGED <<history, list, calls>>

\* polls and refreshes whose fetches resolve in any order
SpecOverlap == Init /\ [][NextOverlap]_vars

(* ---------------------- a failure between polls ----------------------- *)

\* the answers of ScenarioResponses with a vote in them: in the runs of
\* SpecRecover only a failed fetch shows 0 percent
RecoverResponses ==
    {data \in ScenarioResponses : StatsOver(data).votingDonePercentage > 0}

RecoverFetchDone == \E data \in RecoverResponses : FetchAllResolve(data)

NextRecover ==
    \/ PollTick /\ UNCHANGED <<history, list, calls>>
    \/ RecoverFetchDone /\ Observe /\ UNCHANGED <<list, calls>>
    \/ FetchAllFail /\ Observe /\ CountFailure /\ UNCHANGED list
    \/ TimeoutFire /\ ObserveTimeout /\ UNCHANGED <<list, calls>>

\* polls that answer a dataset with votes or fail
SpecRecover == Init /\ [][NextRecover]_vars

\* what the listing endpoint answers in the runs of SpecSteady: 15, 25 and
\* 35 percent voting done
SteadyResponses == {MkData(20, 3, 5), MkData(20, 5, 5), MkData(20, 7, 9)}

SteadyFetchDone == \E data \in SteadyResponses : FetchAllResolve(data)

\* the deciles of s not celebrated before
Unfired(s) == SelectSeq(s, LAMBDA d : d \notin Range(fired))

\* the history of a run that never ends: the last two percentages the
\* recomputes saw, and each decile celebrated, once
ObserveLast ==
    /\ observed' = <<observed[Len(observed)],
                     summaryStats'.votingDonePercentage>>
    /\ fired' = fired \o Unfired(SubSeq(timers', Len(timers) + 1, Len(timers')))

ObserveTimeoutLast ==
    /\ observed' = observed
    /\ fired' = fired \o Unfired(SubSeq(timers', Len(timers), Len(timers')))

NextSteady ==
    \/ PollTick /\ UNCHANGED <<history, list, calls>>
    \/ SteadyFetchDone /\ ObserveLast /\ UNCHANGED <<list, calls>>
    \/ TimeoutFire /\ ObserveTimeoutLast /\ UNCHANGED <<list, calls>>

\* no dismissal and no failure; a timeout that is due fires, a poll that is
\* due is made and a fetch in flight is answered
SpecSteady ==
    /\ Init /\ [][NextSteady]_vars
    /\ WF_vars(TimeoutFire /\ ObserveTimeoutLast /\ UNCHANGED <<list, calls>>)
    /\ WF_vars(PollTick /\ UNCHANGED <<history, list, calls>>)
    /\ WF_vars(SteadyFetchDone /\ ObserveLast /\ UNCHANGED <<list, calls>>)

(* ------------------- the view that searches on the server ------------- *)

\* tbl_voters_search in the order of the listing query (updated_at
\* descending): 120 records, 60 of each booth
SearchTable == MkData(120, 30, 60)

\* the search box: nothing, or a booth number
SearchTerms == {""} \cup BoothNumbers

\* column LIKE '%search%', over the one-character values of BoothNumbers
Like(value, pattern) == value = pattern

\* the WHERE clause of the endpoint, over the searched column the records
\* of the model carry
WhereClause(row, searchParam) ==
    searchParam = "" \/ Like(row.Booth_Number, searchParam)

\* the rows the count and the listing query select
SearchRows(searchParam) ==
    SelectSeq(SearchTable, LAMBDA row : WhereClause(row, searchParam))

\* the answer of GET /api/voterstatus/corporation?page=&limit=50&search=
ApiResponse(rows, page) ==
    [data |-> ArraySlice(rows, (page - 1) * PageSize,
                         (page - 1) * PageSize + PageSize),
     pagination |-> PaginationInfo(page, Ceil(Len(rows), PageSize), Len(rows))]

ApiGet(request) == ApiResponse(SearchRows(request.search), request.page)

\* fetchCorporationList(page, 50, search) up to its await
IssueSearch(page, searchParam) ==
    /\ Len(pendingSearch) < MaxInFlight
    /\ pendingSearch' = Append(pendingSearch,
                               [page |-> page, search |-> searchParam])
    /\ lastIssued' = [page |-> page, search |-> searchParam]

\* the pages the pagination controls offer for the pagination state p
SearchPageButtons(p) == IF p = << >> THEN {} ELSE PageButtons(p[1])

\* onPageChange of the table: handlePageChange(page)
SearchPageChange ==
    /\ \E page \in SearchPageButtons(searchView.pagination) :
           IssueSearch(page, searchView.searchTerm)
    /\ UNCHANGED searchView

\* onSearchChange of the table: handleSearchChange(search)
HandleSearchChange ==
    \E term \in SearchTerms \ {searchView.searchTerm} :
        /\ searchView' = [searchView EXCEPT !.searchTerm = term,
                                            !.currentPage = 1]
        /\ IssueSearch(1, term)

\* the Refresh button: fetchCorporationList(currentPage, 50, searchTerm)
SearchRefresh ==
    /\ IssueSearch(searchView.currentPage, searchView.searchTerm)
    /\ UNCHANGED searchView

\* the state the try branch of fetchCorporationList leaves
SearchAnswered(view, request, result) ==
    [view EXCEPT !.corporationListData = result.data,
                 !.pagination = <<result.pagination>>,
                 !.currentPage = request.page]

\* the i-th call in flight is answered
SearchResolve(i) ==
    /\ searchView' = SearchAnswered(searchView, pendingSearch[i],
                                    ApiGet(pendingSearch[i]))
    /\ pendingSearch' = RemoveAt(pendingSearch, i)
    /\ UNCHANGED lastIssued

SearchFetchDone == \E i \in 1..Len(pendingSearch) : SearchResolve(i)

NextSearch ==
    \/ SearchPageChange /\ UNCHANGED <<state, memos, env, history, list, failed, order>>
    \/ HandleSearchChange /\ UNCHANGED <<state, memos, env, history, list, failed, order>>
    \/ SearchRefresh /\ UNCHANGED <<state, memos, env, history, list, failed, order>>
    \/ SearchFetchDone /\ UNCHANGED <<state, memos, env, history, list, failed, order>>

\* page changes, searches and refreshes of the view that searches on the
\* server, every request answered, in any order
SpecSearch == Init /\ [][NextSearch]_vars

(* =============================== claims =============================== *)

votingDonePercentage == summaryStats.votingDonePercentage

\* the record satisfies every filter that is set
Satisfies(item) ==
    /\ selectedBooth # "" => item.Booth_Number = selectedBooth
    /\ votingFilter = "done" => item.voting_status \in {"Completed", "Direct"}
    /\ votingFilter = "not_done"
           => item.voting_status \notin {"Completed", "Direct"}
    /\ surveyFilter = "done" => item.updated_at # ""
    /\ surveyFilter = "not_done" => item.updated_at = ""
    /\ transferFilter = "yes" => item.inst_1_paid = "1"
    /\ transferFilter = "no" => item.inst_1_paid # "1"
    /\ votersNotYetFilter = "pending"
           => /\ item.inst_1_paid = "1"
              /\ item.voting_status \in {"Pending", "In Transit"}

\* C1: the filtered dataset is exactly the subsequence, in the original
\* order, of the records that satisfy every filter that is set; and so it
\* is for every single record of the record universe under the filters set.
C1_FilteredIsSubsequence ==
    /\ allFilteredData = SelectSeq(allCorporationData, Satisfies)
    /\ \A item \in VoterRecords :
           ApplyFilters(<<item>>, selectedBooth, votingFilter, surveyFilter,
                        transferFilter, votersNotYetFilter)
           = SelectSeq(<<item>>, Satisfies)

\* C1 witness: all five filters set, the first of two records dropped and
\* the second kept
C1_Witness ==
    /\ selectedBooth # "" /\ votingFilter # "" /\ surveyFilter # ""
    /\ transferFilter # "" /\ votersNotYetFilter # ""
    /\ Len(allCorporationData) = 2
    /\ allFilteredData = <<allCorporationData[2]>>
    /\ allCorporationData[1] # allCorporationData[2]

Scenario == <<0, 15, 15, 25, 100>>

\* C2 as claimed: once the recomputes have seen 0, 15, 15, 25, 100 the
\* celebrations fired are those of 10, 20, ..., 100, in this order.
C2_AllDecilesFire == observed = Scenario => fired = milestones

\* C2 amended: the recompute that sees 25 fires 20, the one that sees 100
\* fires 30 or nothing, and nothing else fires: 10 never does.
C2_ScenarioFires ==
    /\ observed = SubSeq(Scenario, 1, 3) => fired = << >>
    /\ observed = SubSeq(Scenario, 1, 4) => fired = <<20>>
    /\ observed = Scenario => fired \in {<<20>>, <<20, 30>>}

\* C2 witness: the scenario has run and both celebrations fired
C2_Witness == observed = Scenario /\ fired = <<20, 30>>

\* C3: a recompute that sees a nonzero percentage while previousPercentage
\* is the 0 sentinel starts no celebration, sets previousPercentage to the
\* percentage and lastFiredMilestone to the highest decile at or below it
\* (leaving it alone when the percentage is below 10).
C3_Seed ==
    [][(prevPercentageRef = 0 /\ votingDonePercentage' > 0)
       => /\ prevPercentageRef' = votingDonePercentage'
          /\ timers' = timers /\ fired' = fired
          /\ showCardCelebration' = showCardCelebration
          /\ celebrationPercentage' = celebrationPercentage
          /\ lastMilestoneRef' =
                 IF votingDonePercentage' >= 10
                 THEN 10 * (votingDonePercentage' \div 10)
                 ELSE lastMilestoneRef]_vars

\* C3 witness: the first percentage seen was 47
C3_Witness ==
    /\ observed = <<0, 47>> /\ fired = << >>
    /\ prevPercentageRef = 47 /\ lastMilestoneRef = 40
    /\ ~showCardCelebration

\* the deciles a rise from prev to pct crosses
Crossed(prev, pct) == {m \in Range(milestones) : prev < m /\ m <= pct}

SetMin(S) == CHOOSE m \in S : \A x \in S : m <= x

\* C4 as claimed: an idle recompute, not the seed, that raises the
\* percentage across several deciles fires exactly one celebration, for the
\* lowest crossed decile other than lastFiredMilestone.
C4_LowestFreshFires ==
    [][(/\ ~showCardCelebration
        /\ prevPercentageRef # 0
        /\ votingDonePercentage' > prevPercentageRef
        /\ Cardinality(Crossed(prevPercentageRef, votingDonePercentage')) > 1)
       => fired' = Append(fired,
                          SetMin(Crossed(prevPercentageRef,
                                         votingDonePercentage')
                                 \ {lastMilestoneRef}))]_vars

NonDecreasing(s) == \A i \in 1..(Len(s) - 1) : s[i] <= s[i + 1]

NoDuplicates(s) == \A i, j \in 1..Len(s) : s[i] = s[j] => i = j

\* C5: as long as the percentages seen never decrease, no decile has fired
\* twice.
C5_OncePerDecile == NonDecreasing(observed) => NoDuplicates(fired)

\* C5 witness: a rising run in which two celebrations fired
C5_Witness ==
    /\ NonDecreasing(observed) /\ Len(observed) = MaxObserved
    /\ Len(fired) = 2

\* a step that puts a new timeout in the queue
StartsCelebration ==
    \/ Len(timers') > Len(timers)
    \/ Len(timers') = Len(timers) /\ timers' # timers


C7_FireTransition ==
    [][StartsCelebration
       => /\ votingDonePercentage' > prevPercentageRef
          /\ celebrationPercentage' \in Range(milestones)
          /\ prevPercentageRef < celebrationPercentage'
          /\ celebrationPercentage' <= votingDonePercentage'
          /\ celebrationPercentage' # lastMilestoneRef
          /\ lastMilestoneRef' = celebrationPercentage'
          /\ timers' = Append(timers, celebrationPercentage')
          /\ showCardCelebration']_vars

\* C7 witness: the rise from 33 to 50 percent has fired 40
C7_Witness ==
    /\ showCardCelebration /\ celebrationPercentage = 40
    /\ lastMilestoneRef = 40 /\ timers = <<40>>
    /\ prevPercentageRef = 50 /\ votingDonePercentage = 50

\* C8: a celebration that is showing is in the end cleared by its timeout,
\* whatever fetches and recomputes happen meanwhile.
C8_AutoClear ==
    showCardCelebration
        ~> (~showCardCelebration /\ celebrationPercentage = Null)

\* C8 witness: a celebration fired and is cleared, no timeout left
C8_Witness ==
    /\ fired # << >> /\ timers = << >>
    /\ ~showCardCelebration /\ celebrationPercentage = Null

\* C9 as claimed: the statistics are those of the records of the selected
\* booth, or of the whole dataset when no booth is selected, whatever the
\* other four filters are.
C9_StatsScope ==
    summaryStats = StatsOver(BoothStage(allCorporationData, selectedBooth))

\* the number of surveyed records of the dataset
SurveyCount ==
    Cardinality({i \in 1..Len(allCorporationData) :
                     allCorporationData[i].updated_at # ""})

\* the number of records of the dataset whose voting is done
DoneCount ==
    Cardinality({i \in 1..Len(allCorporationData) :
                     allCorporationData[i].voting_status
                         \in {"Completed", "Direct"}})

RoundHalfUp(num, den) == (2 * num + den) \div (2 * den)

\* C10 as claimed: the statistics of a dataset with no booth selected are
\* its length, its surveyed and voting-done counts and the ratio of
\* voting-done to length in percent, rounded half up, 0 when it is empty.
C10_Stats ==
    selectedBooth = ""
    => summaryStats =
           [totalRecords |-> Len(allCorporationData),
            totalSurveyCount |-> SurveyCount,
            votingDoneCount |-> DoneCount,
            votingDonePercentage |->
                IF Len(allCorporationData) = 0 THEN 0
                ELSE RoundHalfUp(100 * DoneCount, Len(allCorporationData))]

C12_Idempotent ==
    /\ ApplyFilters(allFilteredData, selectedBooth, votingFilter,
                    surveyFilter, transferFilter, votersNotYetFilter)
       = allFilteredData
    /\ \A item \in VoterRecords :
           ApplyFilters(ApplyFilters(<<item>>, selectedBooth, votingFilter,
                                     surveyFilter, transferFilter,
                                     votersNotYetFilter),
                        selectedBooth, votingFilter, surveyFilter,
                        transferFilter, votersNotYetFilter)
           = ApplyFilters(<<item>>, selectedBooth, votingFilter, surveyFilter,
                          transferFilter, votersNotYetFilter)

\* C12 witness: two records of one booth kept by a booth and a voting
\* filter that are both set
C12_Witness ==
    /\ selectedBooth # "" /\ votingFilter = "done"
    /\ Len(allCorporationData) = 2 /\ allFilteredData = allCorporationData

\* done and notDone share no record and together are the records of unset
Partitions(done, notDone, unset) ==
    /\ Range(done) \cap Range(notDone) = {}
    /\ Range(done) \cup Range(notDone) = Range(unset)
    /\ Len(done) + Len(notDone) = Len(unset)

AllPending ==
    \A i \in 1..Len(allCorporationData) :
        allCorporationData[i].voting_status = "Pending"

\* C13: with the other filters as they are, the results of the voting
\* filter done and not_done partition the result of the voting filter
\* unset, the results of the survey filter done and not_done partition the
\* result of the survey filter unset, and the voting filter not_done alone
\* returns a dataset of Pending records unchanged.
C13_DoneNotDonePartition ==
    /\ Partitions(ApplyFilters(allCorporationData, selectedBooth, "done",
                               surveyFilter, transferFilter,
                               votersNotYetFilter),
                  ApplyFilters(allCorporationData, selectedBooth, "not_done",
                               surveyFilter, transferFilter,
                               votersNotYetFilter),
                  ApplyFilters(allCorporationData, selectedBooth, "",
                               surveyFilter, transferFilter,
                               votersNotYetFilter))
    /\ Partitions(ApplyFilters(allCorporationData, selectedBooth,
                               votingFilter, "done", transferFilter,
                               votersNotYetFilter),
                  ApplyFilters(allCorporationData, selectedBooth,
                               votingFilter, "not_done", transferFilter,
                               votersNotYetFilter),
                  ApplyFilters(allCorporationData, selectedBooth,
                               votingFilter, "", transferFilter,
                               votersNotYetFilter))
    /\ AllPending
       => ApplyFilters(allCorporationData, "", "not_done", "", "", "")
          = allCorporationData
    /\ (/\ AllPending /\ votingFilter = "not_done" /\ selectedBooth = ""
        /\ surveyFilter = "" /\ transferFilter = ""
        /\ votersNotYetFilter = "")
       => allFilteredData = allCorporationData

\* C13 witness: two Pending records under the voting filter not_done alone
C13_Witness ==
    /\ Len(allCorporationData) = 2 /\ AllPending
    /\ allCorporationData[1] # allCorporationData[2]
    /\ votingFilter = "not_done" /\ selectedBooth = ""
    /\ surveyFilter = "" /\ transferFilter = "" /\ votersNotYetFilter = ""
    /\ allFilteredData = allCorporationData

\* C14: the page window has at most 50 records and is empty when the
\* current page is beyond totalPages; so is the window of every page from
\* 1 to two beyond totalPages, which is always defined.
C14_WindowBounded ==
    /\ Len(filteredData) <= PageSize
    /\ currentPage > filteredPagination.totalPages => filteredData = << >>
    /\ \A page \in 1..(filteredPagination.totalPages + 2) :
           /\ Len(PageWindow(allFilteredData, page)) <= PageSize
           /\ page > filteredPagination.totalPages
              => PageWindow(allFilteredData, page) = << >>

\* C14 witness: the current page is beyond the pages of a filtered dataset
\* that has records
C14_Witness ==
    /\ allFilteredData # << >>
    /\ currentPage > filteredPagination.totalPages
    /\ filteredData = << >>

RECURSIVE ConcatPages(_, _)
\* the windows of pages 1..n of filtered, one after the other
ConcatPages(filtered, n) ==
    IF n = 0 THEN << >>
    ELSE ConcatPages(filtered, n - 1) \o PageWindow(filtered, n)

\* C15: the windows of pages 1..totalPages, concatenated in order, are the
\* filtered dataset.
C15_PagesRoundTrip ==
    ConcatPages(allFilteredData, filteredPagination.totalPages)
    = allFilteredData

\* C15 witness: a booth of 60 records on two pages, the second one shown
C15_Witness ==
    /\ selectedBooth # "" /\ Len(allFilteredData) = 60
    /\ filteredPagination.totalPages = 2 /\ currentPage = 2
    /\ Len(filteredData) = 10

FilterTuple ==
    <<selectedBooth, votingFilter, surveyFilter, transferFilter,
      votersNotYetFilter>>

\* C16 as claimed: a step that changes a filter derives its page window
\* with currentPage already 1, whatever the page was.
C16_PageOneBeforeWindow ==
    [][FilterTuple' # FilterTuple
       => /\ currentPage' = 1
          /\ filteredPagination'.currentPage = 1
          /\ filteredData' = PageWindow(allFilteredData', 1)]_vars

\* C17 as claimed: a step in which a fetch fails shows one more error
\* notification, empties the result of that fetch, starts no fetch and
\* leaves the filters and the current page alone.
C17_FailureSurfaced ==
    [][failed' = failed + 1
       => /\ toasts' = toasts + 1
          /\ pendingAll' < pendingAll => allCorporationData' = << >>
          /\ Len(pendingList') < Len(pendingList)
             => corporationListData' = << >>
          /\ pendingAll' + Len(pendingList') + 1
             = pendingAll + Len(pendingList)
          /\ FilterTuple' = FilterTuple
          /\ currentPage' = currentPage]_vars

\* C18: the dataset is the answer of the fetchAll call that resolved last,
\* whichever call that was, and every call started is in flight until it
\* resolves.
C18_LastResolvedWins ==
    /\ allCorporationData = lastResponse
    /\ pendingAll = Len(inFlightAll)

\* C18 witness: the dataset was written by a call started before one that
\* had resolved earlier, and no call is left
C18_Witness ==
    /\ staleWrite /\ pendingAll = 0
    /\ allCorporationData = MkData(4, 2, 3)
    /\ summaryStats.totalRecords = 4

\* C19 as claimed: once the view is torn down no fetchAll call starts and
\* no auto-hide timeout fires.
C19_TimersCancelled ==
    [][~mounted => (pendingAll' <= pendingAll /\ timers' = timers)]_vars

\* C20: in every reachable state previousPercentage is the percentage of
\* the statistics computed last.
C20_PrevFollowsPercentage == prevPercentageRef = votingDonePercentage

\* C20 witness: seeded at 33 percent, the percentage has fallen to 25 and
\* previousPercentage with it
C20_Witness ==
    /\ lastMilestoneRef = 30 /\ prevPercentageRef = 25
    /\ votingDonePercentage = 25 /\ ~showCardCelebration

\* C21 as claimed: lastFiredMilestone is none or at least every decile
\* celebrated so far.
C21_LastIsHighestFired ==
    \/ lastMilestoneRef = Null
    \/ \A i \in 1..Len(fired) : fired[i] <= lastMilestoneRef

\* C22: a dismissal leaves no celebration showing and no decile, as the
\* timeout does, and leaves the two refs, the dataset, the filters, the
\* current page and the pending timeouts alone; and a celebration is
\* showing exactly when celebratingValue is a decile.
C22_Dismissal ==
    /\ [](showCardCelebration <=> celebrationPercentage \in Range(milestones))
    /\ [][CloseCelebration
          => /\ ~showCardCelebration' /\ celebrationPercentage' = Null
             /\ prevPercentageRef' = prevPercentageRef
             /\ lastMilestoneRef' = lastMilestoneRef
             /\ allCorporationData' = allCorporationData
             /\ FilterTuple' = FilterTuple
             /\ currentPage' = currentPage
             /\ timers' = timers]_vars

\* C22 witness: the celebration of 40 was dismissed before its timeout
C22_Witness ==
    /\ mounted /\ ~showCardCelebration /\ celebrationPercentage = Null
    /\ timers = <<40>> /\ lastMilestoneRef = 40 /\ prevPercentageRef = 50

\* C23: the pagination record of the filtered dataset of length n on page
\* p has totalRecords n, limit 50, totalPages the least number of pages of
\* 50 that hold n records (0 for none), hasNextPage iff p < totalPages and
\* hasPrevPage iff p > 1.
C23_PaginationMeta ==
    /\ filteredPagination.currentPage = currentPage
    /\ filteredPagination.totalRecords = Len(allFilteredData)
    /\ filteredPagination.limit = 50
    /\ filteredPagination.totalPages \in 0..Len(allFilteredData)
    /\ filteredPagination.totalPages * 50 >= Len(allFilteredData)
    /\ filteredPagination.totalPages * 50 < Len(allFilteredData) + 50
    /\ filteredPagination.hasNextPage
       <=> currentPage < filteredPagination.totalPages
    /\ filteredPagination.hasPrevPage <=> currentPage > 1

\* C23 witness: the last of the three pages of 120 records
C23_Witness ==
    /\ Len(allFilteredData) = 120 /\ currentPage = 3
    /\ filteredPagination.totalPages = 3
    /\ ~filteredPagination.hasNextPage /\ filteredPagination.hasPrevPage

\* C24 as claimed: a timeout that ends a showing celebration is the one
\* started with it, the youngest pending; no older timeout is left to end
\* it early.
C24_OwnTimerClears ==
    [][(/\ showCardCelebration /\ ~showCardCelebration'
        /\ timers # << >> /\ timers' = Tail(timers))
       => Len(timers) = 1]_vars

\* C25 as claimed: a step that changes a filter and not the dataset starts
\* no celebration and changes neither previousPercentage nor
\* lastFiredMilestone.
C25_FiltersLeaveMilestones ==
    [][(FilterTuple' # FilterTuple
        /\ allCorporationData' = allCorporationData)
       => /\ ~StartsCelebration
          /\ prevPercentageRef' = prevPercentageRef
          /\ lastMilestoneRef' = lastMilestoneRef]_vars

\* the decile a recompute would celebrate that sees the percentage pct with
\* previousPercentage still p1, or Null
WouldFire(p1, pct) ==
    MilestoneStep(p1, lastMilestoneRef, showCardCelebration, pct).fired

\* C26 as claimed: when the last fetch failed after a percentage p1 > 0 and
\* the next one answers p2 > p1, the recompute celebrates the decile it
\* would have celebrated had it still remembered p1, when that decile has
\* not been celebrated yet.
C26_FailureKeepsTracking ==
    [][(/\ Len(observed) >= 3
        /\ observed[Len(observed)] = 0
        /\ observed[Len(observed) - 1] > 0
        /\ Len(observed') = Len(observed) + 1
        /\ votingDonePercentage' > observed[Len(observed) - 1]
        /\ WouldFire(observed[Len(observed) - 1], votingDonePercentage')
           \notin {Null} \cup Range(fired))
       => fired' = Append(fired, WouldFire(observed[Len(observed) - 1],
                                           votingDonePercentage'))]_vars

\* C27 as claimed: once the reset-page effect has run, a filtered dataset
\* with records is shown on a page from 1 to totalPages, with a window
\* that has records.
C27_PageInRange ==
    (~pageResetPending /\ allFilteredData # << >>)
    => /\ 1 <= currentPage
       /\ currentPage <= filteredPagination.totalPages
       /\ filteredData # << >>

\* the celebration of the decile below d is showing and the last recompute
\* saw the percentage rise across d
CrossedWhileShowing(d) ==
    /\ showCardCelebration /\ celebrationPercentage = d - 10
    /\ Len(observed) >= 2
    /\ observed[Len(observed) - 1] >= d - 10
    /\ observed[Len(observed) - 1] < d
    /\ observed[Len(observed)] >= d

\* C28 as claimed, for the decile 30: once crossed upward while the
\* celebration of 20 is showing, 30 is celebrated in the end.
C28_CrossingNotLost == CrossedWhileShowing(30) ~> (30 \in Range(fired))

\* C30: on every current page p, the row at index i of the displayed window
\* shows the serial number (p - 1) * 50 + i + 1, also on the pages after
\* the first.
C30_SerialNumbers ==
    ~pageResetPending =>
        \A i \in 0..(Len(filteredData) - 1) :
            SerialNumber(corporationListColumns, i)
                = (currentPage - 1) * PageSize + i + 1

\* C29: in the view that searches on the server, once no fetch is in
\* flight the records, the pagination and currentPage are those of the
\* answer to the request issued last, whatever the order of the answers.
C29_LatestResponseShown ==
    pendingSearch = << >> =>
        /\ searchView.corporationListData = ApiGet(lastIssued).data
        /\ searchView.pagination = <<ApiGet(lastIssued).pagination>>
        /\ searchView.currentPage = lastIssued.page

====
